---- MODULE Spec2Model ----
(***************************************************************************)
(* Payment routing engine with smart retry: the PSP catalog, the decline   *)
(* classifier, the PSP simulator, the strategy ordering and the routing    *)
(* engine (route / route_no_retry).                                        *)
(*                                                                         *)
(* Numbers: probabilities and rates are held in percent (0.78 -> 78,       *)
(* 0.06 -> 6), fees in hundredths (2.9 -> 290, so that                     *)
(* fee_percentage + fee_fixed_cents / 100.0 is fee_percentage +            *)
(* fee_fixed_cents in hundredths).                                         *)
(*                                                                         *)
(* The simulator derives every random draw from a hash of transaction and  *)
(* PSP attributes.  The hash is not computed here: a transaction carries,  *)
(* in place of id, card_bin, card_last4 and amount, the value of each draw *)
(* those attributes seed (per PSP id where the seed takes the PSP id).     *)
(* The values are chosen in the initial state and never change, so a draw  *)
(* is a fixed function of the attributes its seed is made of.              *)
(***************************************************************************)
EXTENDS Integers, Sequences, FiniteSets, TLC

VARIABLES
    transaction,      \* the Transaction being routed (see Transactions)
    psps,             \* the list get_psps_for_country returns for its country
    pc,               \* "idle" | "route" (inside the for loop) | "done"
    op,               \* the call in progress or just returned
    strategy,         \* route's strategy argument
    ordered_psps,     \* route: ordered_psps
    next_psp,         \* route: position of the for loop in ordered_psps
    attempts,         \* route: attempts
    total_latency_ms, \* route: total_latency_ms
    attempt_number,   \* route: attempt_number
    result,           \* the RoutingResult returned
    transactions,     \* generate_report: the batch of transactions
    report,           \* the PerformanceReport returned
    rng,              \* data: the draws of StdRng::seed_from_u64(DATA_SEED)
    count,            \* generate_test_data: count
    http_request,     \* api: the HTTP request being handled
    http_response     \* api: the HTTP response returned

vars == <<transaction, psps, pc, op, strategy, ordered_psps, next_psp,
          attempts, total_latency_ms, attempt_number, result,
          transactions, report, rng, count, http_request, http_response>>

\* the variables the engine and the report generator leave alone
callerVars == <<rng, count, http_request, http_response>>

None == "None"

\* the value of rng while no data is generated
NoRng == [bin |-> <<>>, amount |-> <<>>]

\* the value of http_request while no request is handled
NoRequest == [method |-> None]

\* the value of http_response while no response has been returned
NoResponse == [status |-> 0]

Countries == {"Brazil", "Mexico", "Colombia"}

Strategies == {"OptimizeForApprovals", "OptimizeForCost", "Balanced"}

HardReasons == {"InsufficientFunds", "CardExpired", "InvalidCard", "StolenCard"}

SoftReasons == {"IssuerUnavailable", "SuspectedFraud", "DoNotHonor", "ProcessorDeclined"}

DeclineReason == HardReasons \cup SoftReasons \cup {"PspUnavailable"}

-----------------------------------------------------------------------------
(* models/psp.rs, simulator/config.rs: the catalog *)

PspConfig(id, name, c, rate, lmin, lmax, feepct, feefixed) ==
    [id |-> id, name |-> name, country |-> c, base_success_rate |-> rate,
     latency_min_ms |-> lmin, latency_max_ms |-> lmax,
     fee_percentage |-> feepct, fee_fixed_cents |-> feefixed]

get_psps_for_country(c) ==
    CASE c = "Brazil" ->
           << PspConfig("psp_br_1", "PagSeguro", "Brazil", 78, 200, 400, 290, 30),
              PspConfig("psp_br_2", "Cielo", "Brazil", 82, 150, 250, 320, 25),
              PspConfig("psp_br_3", "Stone", "Brazil", 68, 300, 600, 250, 35) >>
      [] c = "Mexico" ->
           << PspConfig("psp_mx_1", "Conekta", "Mexico", 75, 180, 350, 280, 28),
              PspConfig("psp_mx_2", "OpenPay", "Mexico", 80, 200, 300, 310, 22),
              PspConfig("psp_mx_3", "SR Pago", "Mexico", 70, 250, 500, 260, 32) >>
      [] c = "Colombia" ->
           << PspConfig("psp_co_1", "PayU", "Colombia", 76, 190, 380, 270, 29),
              PspConfig("psp_co_2", "Wompi", "Colombia", 83, 160, 280, 330, 20),
              PspConfig("psp_co_3", "Bold", "Colombia", 65, 280, 550, 240, 38) >>

get_all_psps ==
    get_psps_for_country("Brazil") \o get_psps_for_country("Mexico")
        \o get_psps_for_country("Colombia")

DeclineWeight(reason, weight) == [reason |-> reason, weight |-> weight]

Distribution(wi, wf, wd, wp) ==
    << DeclineWeight("IssuerUnavailable", wi), DeclineWeight("SuspectedFraud", wf),
       DeclineWeight("DoNotHonor", wd), DeclineWeight("ProcessorDeclined", wp) >>

get_decline_distribution(psp_id) ==
    CASE psp_id = "psp_br_1" -> Distribution(45, 20, 20, 15)
      [] psp_id = "psp_br_2" -> Distribution(15, 45, 25, 15)
      [] psp_id = "psp_br_3" -> Distribution(15, 20, 45, 20)
      [] psp_id = "psp_mx_1" -> Distribution(20, 15, 20, 45)
      [] psp_id = "psp_mx_2" -> Distribution(45, 20, 15, 20)
      [] psp_id = "psp_mx_3" -> Distribution(15, 45, 20, 20)
      [] psp_id = "psp_co_1" -> Distribution(20, 15, 45, 20)
      [] psp_id = "psp_co_2" -> Distribution(45, 20, 20, 15)
      [] psp_id = "psp_co_3" -> Distribution(15, 20, 20, 45)
      [] OTHER -> Distribution(25, 25, 25, 25)

-----------------------------------------------------------------------------
(* engine/retry.rs: the decline classifier *)

\* faulty variant: StolenCard is missing from the hard class
is_hard_decline_without_stolen(reason) ==
    reason \in {"InsufficientFunds", "CardExpired", "InvalidCard"}

is_hard_decline(reason) ==
    reason \in {"InsufficientFunds", "CardExpired", "InvalidCard", "StolenCard"}

\* models/psp.rs: the methods of the DeclineReason type
DeclineReason_is_hard_decline(reason) ==
    reason \in {"InsufficientFunds", "CardExpired", "InvalidCard", "StolenCard"}

DeclineReason_is_soft_decline(reason) == ~DeclineReason_is_hard_decline(reason)

DeclineReason_is_psp_unavailable(reason) == reason = "PspUnavailable"

\* faulty variant: whatever is no hard decline is soft, PspUnavailable too
is_soft_decline_not_hard(reason) ==
    reason \notin {"InsufficientFunds", "CardExpired", "InvalidCard", "StolenCard"}

is_soft_decline(reason) ==
    reason \in {"IssuerUnavailable", "SuspectedFraud", "DoNotHonor", "ProcessorDeclined"}

\* faulty variant: the check matches another variant
is_psp_unavailable_wrong_variant(reason) == reason = "ProcessorDeclined"

is_psp_unavailable(reason) == reason = "PspUnavailable"

-----------------------------------------------------------------------------
(* simulator/mod.rs: the PSP simulator *)

HARD_DECLINE_RATE == 6

PSP_UNAVAILABLE_RATE == 8

PspResponse(psp, approved, reason, latency_ms) ==
    [psp_id |-> psp.id, psp_name |-> psp.name, approved |-> approved,
     decline_reason |-> reason, latency_ms |-> latency_ms]

\* roll < HARD_DECLINE_RATE on the generator seeded by make_card_seed
is_hard_decline_card(t) == t.card_roll < HARD_DECLINE_RATE

\* the draw of the generator seeded by make_card_seed + 1
select_hard_decline_reason(t) ==
    LET roll == t.hard_reason_roll IN
    IF roll < 45 THEN "InsufficientFunds"
    ELSE IF roll < 75 THEN "CardExpired"
    ELSE IF roll < 90 THEN "InvalidCard"
    ELSE "StolenCard"

\* PspSimulator::is_psp_unavailable: seed of (transaction.id, psp.id)
sim_is_psp_unavailable(t, psp) == t.unavailable_roll[psp.id] < PSP_UNAVAILABLE_RATE

RECURSIVE CumulativeWeight(_, _)
CumulativeWeight(distribution, i) ==
    IF i = 0 THEN 0 ELSE CumulativeWeight(distribution, i - 1) + distribution[i].weight

\* the second draw of the generator seeded by make_psp_seed
select_soft_decline_reason(roll, psp_id) ==
    LET distribution == get_decline_distribution(psp_id)
        hits == {i \in 1..Len(distribution) : roll < CumulativeWeight(distribution, i)}
    IN  IF hits # {}
        THEN distribution[CHOOSE i \in hits : \A j \in hits : i <= j].reason
        ELSE IF Len(distribution) > 0 THEN distribution[Len(distribution)].reason
        ELSE "ProcessorDeclined"

\* faulty variant: the range starts at 0, not at latency_min_ms
simulate_latency_from_zero(t, psp) ==
    (psp.latency_max_ms * t.latency_roll[psp.id]) \div 100

\* gen_range(latency_min_ms..=latency_max_ms); the draw is a percentage of the range
simulate_latency(t, psp) ==
    psp.latency_min_ms
        + ((psp.latency_max_ms - psp.latency_min_ms) * t.latency_roll[psp.id]) \div 100

\* faulty variant: the unavailability gate comes before the hard-decline gate
process_unavailable_gate_first(t, psp) ==
    LET latency_ms == simulate_latency(t, psp) IN
    IF sim_is_psp_unavailable(t, psp)
    THEN PspResponse(psp, FALSE, "PspUnavailable", latency_ms)
    ELSE IF is_hard_decline_card(t)
    THEN PspResponse(psp, FALSE, select_hard_decline_reason(t), latency_ms)
    ELSE IF t.success_roll[psp.id] < psp.base_success_rate
    THEN PspResponse(psp, TRUE, None, latency_ms)
    ELSE PspResponse(psp, FALSE,
                     select_soft_decline_reason(t.reason_roll[psp.id], psp.id),
                     latency_ms)

\* faulty variant: the success roll comes before the hard-decline gate
process_success_roll_first(t, psp) ==
    LET latency_ms == simulate_latency(t, psp) IN
    IF sim_is_psp_unavailable(t, psp)
    THEN PspResponse(psp, FALSE, "PspUnavailable", latency_ms)
    ELSE IF t.success_roll[psp.id] < psp.base_success_rate
    THEN PspResponse(psp, TRUE, None, latency_ms)
    ELSE IF is_hard_decline_card(t)
    THEN PspResponse(psp, FALSE, select_hard_decline_reason(t), latency_ms)
    ELSE PspResponse(psp, FALSE,
                     select_soft_decline_reason(t.reason_roll[psp.id], psp.id),
                     latency_ms)

process(t, psp) ==
    LET latency_ms == simulate_latency(t, psp) IN
    IF is_hard_decline_card(t)
    THEN PspResponse(psp, FALSE, select_hard_decline_reason(t), latency_ms)
    ELSE IF sim_is_psp_unavailable(t, psp)
    THEN PspResponse(psp, FALSE, "PspUnavailable", latency_ms)
    ELSE IF t.success_roll[psp.id] < psp.base_success_rate
    THEN PspResponse(psp, TRUE, None, latency_ms)
    ELSE PspResponse(psp, FALSE,
                     select_soft_decline_reason(t.reason_roll[psp.id], psp.id),
                     latency_ms)

-----------------------------------------------------------------------------
(* engine/strategy.rs: the strategy ordering *)

total_fee(psp) == psp.fee_percentage + psp.fee_fixed_cents

RECURSIVE MaxFee(_, _)
\* sorted.iter().map(total_fee).fold(0.0, f64::max)
MaxFee(list, i) ==
    IF i = 0 THEN 0
    ELSE LET rest == MaxFee(list, i - 1) IN
         IF total_fee(list[i]) > rest THEN total_fee(list[i]) ELSE rest

\* faulty variant: with max_fee 0 the normalized fee is 1, so the cost term is 0
balanced_score_no_cost_term(psp, max_fee) ==
    IF max_fee > 0
    THEN 7 * psp.base_success_rate * max_fee + 300 * (max_fee - total_fee(psp))
    ELSE 7 * psp.base_success_rate

\* success_rate * 0.7 + (1.0 - normalized_fee) * 0.3, times 1000 * max_fee
\* (times 1000 when max_fee is 0); max_fee is the same for every PSP of a sort
balanced_score(psp, max_fee) ==
    IF max_fee > 0
    THEN 7 * psp.base_success_rate * max_fee + 300 * (max_fee - total_fee(psp))
    ELSE 7 * psp.base_success_rate + 300

\* the comparator of each sort_by: TRUE when a orders strictly before b
Before(a, b, s, max_fee) ==
    CASE s = "OptimizeForApprovals" -> b.base_success_rate < a.base_success_rate
      [] s = "OptimizeForCost" -> total_fee(a) < total_fee(b)
      [] s = "Balanced" -> balanced_score(b, max_fee) < balanced_score(a, max_fee)

\* faulty variant: x takes the place of the element it should go before
InsertStable_overwrite(sorted, x, s, max_fee) ==
    LET later == {i \in 1..Len(sorted) : Before(x, sorted[i], s, max_fee)}
        k == IF later = {} THEN Len(sorted) + 1
             ELSE CHOOSE i \in later : \A j \in later : i <= j
    IN  SubSeq(sorted, 1, k - 1) \o <<x>> \o SubSeq(sorted, k + 1, Len(sorted))

\* faulty variant: x goes before the elements it compares equal to
InsertStable_before_equal(sorted, x, s, max_fee) ==
    LET later == {i \in 1..Len(sorted) : ~Before(sorted[i], x, s, max_fee)}
        k == IF later = {} THEN Len(sorted) + 1
             ELSE CHOOSE i \in later : \A j \in later : i <= j
    IN  SubSeq(sorted, 1, k - 1) \o <<x>> \o SubSeq(sorted, k, Len(sorted))

\* Vec::sort_by is a stable sort: x goes before the first element it orders
\* strictly before, and after every element it compares equal to
InsertStable(sorted, x, s, max_fee) ==
    LET later == {i \in 1..Len(sorted) : Before(x, sorted[i], s, max_fee)}
        k == IF later = {} THEN Len(sorted) + 1
             ELSE CHOOSE i \in later : \A j \in later : i <= j
    IN  SubSeq(sorted, 1, k - 1) \o <<x>> \o SubSeq(sorted, k, Len(sorted))

RECURSIVE SortStable(_, _, _, _)
SortStable(list, i, s, max_fee) ==
    IF i = 0 THEN <<>>
    ELSE InsertStable(SortStable(list, i - 1, s, max_fee), list[i], s, max_fee)

select_psp_order(list, s) ==
    SortStable(list, Len(list), s, MaxFee(list, Len(list)))

-----------------------------------------------------------------------------
(* engine/mod.rs: the routing engine *)

MAX_ATTEMPTS == 3

\* faulty variant: attempts are numbered from 0
build_attempt_zero_based(response, n) ==
    [psp_id |-> response.psp_id, psp_name |-> response.psp_name,
     approved |-> response.approved, decline_reason |-> response.decline_reason,
     latency_ms |-> response.latency_ms, attempt_number |-> n - 1]

build_attempt(response, n) ==
    [psp_id |-> response.psp_id, psp_name |-> response.psp_name,
     approved |-> response.approved, decline_reason |-> response.decline_reason,
     latency_ms |-> response.latency_ms, attempt_number |-> n]

RoutingResult(approved, final_psp, atts, total_attempts, latency) ==
    [approved |-> approved, final_psp |-> final_psp, attempts |-> atts,
     total_attempts |-> total_attempts, total_latency_ms |-> latency]

\* the value of result while no call has returned
NoResult == RoutingResult(FALSE, None, <<>>, 0, 0)

\* faulty variant: the latency of a cascade is left out
AccumulateLatency_skip_cascade(total, response) ==
    IF response.decline_reason = "PspUnavailable" THEN total
    ELSE total + response.latency_ms

\* total_latency_ms += response.latency_ms
AccumulateLatency(total, response) == total + response.latency_ms

\* faulty variant: the cascade branch is never taken
IsCascade_never(response) == FALSE

\* faulty variant: every decline is taken for a cascade
IsCascade_any_decline(response) == response.decline_reason # None

\* if let Some(ref reason) = response.decline_reason { if is_psp_unavailable(reason)
IsCascade(response) ==
    response.decline_reason # None /\ is_psp_unavailable(response.decline_reason)

\* faulty variant: every decline ends the routing
IsHardDecline_any_decline(response) == response.decline_reason # None

\* if let Some(ref reason) = response.decline_reason { if is_hard_decline(reason)
IsHardDecline(response) ==
    response.decline_reason # None /\ is_hard_decline(response.decline_reason)

\* faulty variant: the break comes one attempt late
AttemptsExhausted_late(n) == n > MAX_ATTEMPTS

\* faulty variant: the break comes one attempt early
AttemptsExhausted_early(n) == n >= MAX_ATTEMPTS - 1

\* if attempt_number >= MAX_ATTEMPTS { break; }
AttemptsExhausted(n) == n >= MAX_ATTEMPTS

\* faulty variant: the approved return leaves final_psp out
ApprovedResult_no_final_psp(response, atts, n, latency) ==
    RoutingResult(TRUE, None, atts, n, latency)

\* the RoutingResult of the approved return
ApprovedResult(response, atts, n, latency) ==
    RoutingResult(TRUE, response.psp_name, atts, n, latency)

\* the RoutingResult of the hard-decline return and of the return after the loop
DeclinedResult(atts, n, latency) == RoutingResult(FALSE, None, atts, n, latency)

\* faulty variant: the PSPs are tried in catalog order, whatever the strategy
CallRoute_catalog_order(s) ==
    /\ pc = "idle"
    /\ pc' = "route"
    /\ op' = "route"
    /\ strategy' = s
    /\ ordered_psps' = psps
    /\ next_psp' = 1
    /\ attempts' = <<>>
    /\ total_latency_ms' = 0
    /\ attempt_number' = 0
    /\ UNCHANGED callerVars
    /\ UNCHANGED <<transaction, psps, result, transactions, report>>

\* route, up to the for loop
CallRoute(s) ==
    /\ pc = "idle"
    /\ pc' = "route"
    /\ op' = "route"
    /\ strategy' = s
    /\ ordered_psps' = select_psp_order(psps, s)
    /\ next_psp' = 1
    /\ attempts' = <<>>
    /\ total_latency_ms' = 0
    /\ attempt_number' = 0
    /\ UNCHANGED callerVars
    /\ UNCHANGED <<transaction, psps, result, transactions, report>>

\* route: one iteration of the for loop
RouteIteration ==
    /\ pc = "route"
    /\ next_psp <= Len(ordered_psps)
    /\ LET psp == ordered_psps[next_psp]
           response == process(transaction, psp)
           latency == AccumulateLatency(total_latency_ms, response)
       IN  /\ total_latency_ms' = latency
           /\ IF IsCascade(response)
              THEN \* continue
                   /\ attempts' = Append(attempts, build_attempt(response, attempt_number + 1))
                   /\ attempt_number' = attempt_number
                   /\ next_psp' = next_psp + 1
                   /\ UNCHANGED <<pc, result>>
              ELSE LET n == attempt_number + 1
                       recorded == Append(attempts, build_attempt(response, n))
                   IN  /\ attempt_number' = n
                       /\ attempts' = recorded
                       /\ IF response.approved
                          THEN /\ result' = ApprovedResult(response, recorded, n, latency)
                               /\ pc' = "done"
                               /\ UNCHANGED next_psp
                          ELSE IF IsHardDecline(response)
                          THEN /\ result' = DeclinedResult(recorded, n, latency)
                               /\ pc' = "done"
                               /\ UNCHANGED next_psp
                          ELSE IF response.decline_reason # None /\ AttemptsExhausted(n)
                          THEN \* break, then the return after the loop
                               /\ result' = DeclinedResult(recorded, n, latency)
                               /\ pc' = "done"
                               /\ UNCHANGED next_psp
                          ELSE \* continue
                               /\ next_psp' = next_psp + 1
                               /\ UNCHANGED <<pc, result>>
    /\ UNCHANGED callerVars
    /\ UNCHANGED <<transaction, psps, op, strategy, ordered_psps,
                   transactions, report>>

\* route: the for loop ran off the end of ordered_psps
RouteExhausted ==
    /\ pc = "route"
    /\ next_psp > Len(ordered_psps)
    /\ result' = DeclinedResult(attempts, attempt_number, total_latency_ms)
    /\ pc' = "done"
    /\ UNCHANGED callerVars
    /\ UNCHANGED <<transaction, psps, op, strategy, ordered_psps, next_psp,
                   attempts, total_latency_ms, attempt_number,
                   transactions, report>>

\* faulty variant: the first PSP of the approvals order, not of the catalog
NoRetryResult_strategy_order(t, list) ==
    IF Len(list) = 0
    THEN RoutingResult(FALSE, None, <<>>, 0, 0)
    ELSE LET psp == select_psp_order(list, "OptimizeForApprovals")[1]
             response == process(t, psp)
             attempt == build_attempt(response, 1)
             latency == response.latency_ms
         IN  RoutingResult(response.approved,
                           IF response.approved THEN response.psp_name ELSE None,
                           <<attempt>>, 1, latency)

\* the RoutingResult of route_no_retry for the list get_psps_for_country returned
NoRetryResult(t, list) ==
    IF Len(list) = 0
    THEN RoutingResult(FALSE, None, <<>>, 0, 0)
    ELSE LET psp == list[1]
             response == process(t, psp)
             attempt == build_attempt(response, 1)
             latency == response.latency_ms
         IN  RoutingResult(response.approved,
                           IF response.approved THEN response.psp_name ELSE None,
                           <<attempt>>, 1, latency)

CallRouteNoRetry ==
    /\ pc = "idle"
    /\ op' = "route_no_retry"
    /\ result' = NoRetryResult(transaction, psps)
    /\ pc' = "done"
    /\ UNCHANGED callerVars
    /\ UNCHANGED <<transaction, psps, strategy, ordered_psps, next_psp,
                   attempts, total_latency_ms, attempt_number,
                   transactions, report>>

\* route as a function of its arguments: the for loop from position i of
\* order on, entered with attempts = atts, total_latency_ms = total and
\* attempt_number = n
RECURSIVE RouteLoop(_, _, _, _, _, _)
RouteLoop(t, order, i, atts, total, n) ==
    IF i > Len(order)
    THEN DeclinedResult(atts, n, total)
    ELSE LET response == process(t, order[i])
             latency == AccumulateLatency(total, response)
         IN  IF IsCascade(response)
             THEN RouteLoop(t, order, i + 1,
                            Append(atts, build_attempt(response, n + 1)), latency, n)
             ELSE LET m == n + 1
                      recorded == Append(atts, build_attempt(response, m))
                  IN  IF response.approved
                      THEN ApprovedResult(response, recorded, m, latency)
                      ELSE IF IsHardDecline(response)
                      THEN DeclinedResult(recorded, m, latency)
                      ELSE IF response.decline_reason # None /\ AttemptsExhausted(m)
                      THEN DeclinedResult(recorded, m, latency)
                      ELSE RouteLoop(t, order, i + 1, recorded, latency, m)

\* the RoutingResult of route for the list get_psps_for_country returned
RouteResult(t, list, s) ==
    RouteLoop(t, select_psp_order(list, s), 1, <<>>, 0, 0)

\* select_psp_order called on its own, as the tests of engine/strategy.rs do
CallSelectPspOrder(s) ==
    /\ pc = "idle"
    /\ op' = "select_psp_order"
    /\ strategy' = s
    /\ ordered_psps' = select_psp_order(psps, s)
    /\ pc' = "done"
    /\ UNCHANGED callerVars
    /\ UNCHANGED <<transaction, psps, next_psp, attempts, total_latency_ms,
                   attempt_number, result, transactions, report>>

-----------------------------------------------------------------------------
(* report/mod.rs: the performance report                                   *)
(*                                                                         *)
(* Numbers: a rate or an average (f64 rounded by round2) is held in        *)
(* hundredths, an amount in cents.  A transaction of a batch carries its   *)
(* id and its amount next to the draws; a RoutingResult of a batch carries *)
(* the transaction_id the engine copies from the transaction.              *)

\* what 0.0 / 0.0 gives
NaN == 0 - 1

\* round2(num / den), in hundredths when num is: the quotient rounded half up
RoundDiv(num, den) ==
    IF den = 0 THEN NaN ELSE (2 * num + den) \div (2 * den)

RECURSIVE SumRange(_, _, _)
\* f[lo] + ... + f[hi], halving the range
SumRange(f, lo, hi) ==
    IF lo > hi THEN 0
    ELSE IF lo = hi THEN f[lo]
    ELSE LET mid == (lo + hi) \div 2
         IN  SumRange(f, lo, mid) + SumRange(f, mid + 1, hi)

\* f[1] + ... + f[n]
Sum(f, n) == SumRange(f, 1, n)

ScenarioResult(approved, declined, authorization_rate, avg_attempts, avg_latency_ms) ==
    [approved |-> approved, declined |-> declined,
     authorization_rate |-> authorization_rate,
     avg_attempts |-> avg_attempts, avg_latency_ms |-> avg_latency_ms]

ImprovementMetrics(rate_lift_percentage, additional_approvals, revenue) ==
    [rate_lift_percentage |-> rate_lift_percentage,
     additional_approvals |-> additional_approvals,
     estimated_revenue_recovered_usd |-> revenue]

CountryMetrics(no_retry_rate, smart_retry_rate, improvement, total) ==
    [no_retry_rate |-> no_retry_rate, smart_retry_rate |-> smart_retry_rate,
     improvement |-> improvement, total_transactions |-> total]

PspMetrics(total, approvals, declines, approval_rate, avg_latency_ms) ==
    [total_attempts |-> total, approvals |-> approvals, declines |-> declines,
     approval_rate |-> approval_rate, avg_latency_ms |-> avg_latency_ms]

PerformanceReport(total, no_retry, smart_retry, improvement, by_country, by_psp) ==
    [total_transactions |-> total, no_retry |-> no_retry,
     smart_retry |-> smart_retry, improvement |-> improvement,
     by_country |-> by_country, by_psp |-> by_psp]

\* the value of report while no report has been returned
NoReport ==
    PerformanceReport(0, ScenarioResult(0, 0, 0, 0, 0), ScenarioResult(0, 0, 0, 0, 0),
                      ImprovementMetrics(0, 0, 0), <<>>, <<>>)

run_no_retry(txns) ==
    [i \in 1..Len(txns) |->
        [transaction_id |-> txns[i].id]
            @@ NoRetryResult(txns[i], get_psps_for_country(txns[i].country))]

run_smart_retry(txns, s) ==
    [i \in 1..Len(txns) |->
        [transaction_id |-> txns[i].id]
            @@ RouteResult(txns[i], get_psps_for_country(txns[i].country), s)]

\* faulty variant: no early return for an empty list, so 0.0 / 0.0 is computed
calculate_metrics_no_guard(results) ==
    LET total == Len(results)
        approved == Cardinality({i \in 1..total : results[i].approved})
        declined == total - approved
        total_attempts == Sum([i \in 1..total |-> results[i].total_attempts], total)
        total_latency == Sum([i \in 1..total |-> results[i].total_latency_ms], total)
    IN  ScenarioResult(approved, declined,
                       RoundDiv(100 * 100 * approved, total),
                       RoundDiv(100 * total_attempts, total),
                       RoundDiv(100 * total_latency, total))

\* faulty variant: declined counts every result
calculate_metrics_declined_all(results) ==
    IF Len(results) = 0
    THEN ScenarioResult(0, 0, 0, 0, 0)
    ELSE LET total == Len(results)
             approved == Cardinality({i \in 1..total : results[i].approved})
             total_attempts == Sum([i \in 1..total |-> results[i].total_attempts], total)
             total_latency == Sum([i \in 1..total |-> results[i].total_latency_ms], total)
         IN  ScenarioResult(approved, total,
                            RoundDiv(100 * 100 * approved, total),
                            RoundDiv(100 * total_attempts, total),
                            RoundDiv(100 * total_latency, total))

calculate_metrics(results) ==
    IF Len(results) = 0
    THEN ScenarioResult(0, 0, 0, 0, 0)
    ELSE LET total == Len(results)
             approved == Cardinality({i \in 1..total : results[i].approved})
             declined == total - approved
             total_attempts == Sum([i \in 1..total |-> results[i].total_attempts], total)
             total_latency == Sum([i \in 1..total |-> results[i].total_latency_ms], total)
         IN  ScenarioResult(approved, declined,
                            RoundDiv(100 * 100 * approved, total),
                            RoundDiv(100 * total_attempts, total),
                            RoundDiv(100 * total_latency, total))

\* results.iter().map(|r| (r.transaction_id, r)).collect(): of the results
\* that share a transaction_id the last one stays
IndexById(results) ==
    [id \in {results[i].transaction_id : i \in 1..Len(results)} |->
        LET last == CHOOSE i \in 1..Len(results) :
                        /\ results[i].transaction_id = id
                        /\ \A j \in 1..Len(results) :
                              results[j].transaction_id = id => j <= i
        IN  results[last]]

build_country_breakdown(txns, no_retry_results, smart_retry_results) ==
    LET no_retry_by_id == IndexById(no_retry_results)
        smart_by_id == IndexById(smart_retry_results)
        by_country == [c \in {txns[i].country : i \in 1..Len(txns)} |->
                          {i \in 1..Len(txns) : txns[i].country = c}]
    IN  [c \in DOMAIN by_country |->
            LET total == Cardinality(by_country[c])
                no_retry_approved ==
                    Cardinality({i \in by_country[c] :
                        /\ txns[i].id \in DOMAIN no_retry_by_id
                        /\ no_retry_by_id[txns[i].id].approved})
                smart_approved ==
                    Cardinality({i \in by_country[c] :
                        /\ txns[i].id \in DOMAIN smart_by_id
                        /\ smart_by_id[txns[i].id].approved})
                no_retry_rate == RoundDiv(100 * 100 * no_retry_approved, total)
                smart_retry_rate == RoundDiv(100 * 100 * smart_approved, total)
            IN  CountryMetrics(no_retry_rate, smart_retry_rate,
                               smart_retry_rate - no_retry_rate, total)]

RECURSIVE AllAttempts_last_only(_, _)
\* faulty variant: of each result only the last attempt is taken
AllAttempts_last_only(results, i) ==
    IF i = 0 THEN <<>>
    ELSE AllAttempts_last_only(results, i - 1)
            \o (IF Len(results[i].attempts) = 0 THEN <<>>
                ELSE <<results[i].attempts[Len(results[i].attempts)]>>)

RECURSIVE AttemptsRange(_, _, _)
\* the attempts of results[lo..hi], in order, halving the range
AttemptsRange(results, lo, hi) ==
    IF lo > hi THEN <<>>
    ELSE IF lo = hi THEN results[lo].attempts
    ELSE LET mid == (lo + hi) \div 2
         IN  AttemptsRange(results, lo, mid) \o AttemptsRange(results, mid + 1, hi)

\* the attempts of results[1..i], in the order the two for loops visit them
AllAttempts(results, i) == AttemptsRange(results, 1, i)

\* faulty variant: a cascade is counted as a decline
CountsAsDecline_with_cascade(attempt) == ~attempt.approved

\* entry.2 += 1: the attempt is not approved and is no PspUnavailable cascade
CountsAsDecline(attempt) ==
    /\ ~attempt.approved
    /\ ~(attempt.decline_reason # None /\ attempt.decline_reason = "PspUnavailable")

build_psp_breakdown(results) ==
    LET atts == AllAttempts(results, Len(results))
        n == Len(atts)
    IN  [name \in {atts[i].psp_name : i \in 1..n} |->
            LET mine == {i \in 1..n : atts[i].psp_name = name}
                total == Cardinality(mine)
                approvals == Cardinality({i \in mine : atts[i].approved})
                declines == Cardinality({i \in mine : CountsAsDecline(atts[i])})
                total_latency ==
                    Sum([i \in 1..n |-> IF i \in mine THEN atts[i].latency_ms ELSE 0], n)
            IN  PspMetrics(total, approvals, declines,
                           IF total > 0 THEN RoundDiv(100 * 100 * approvals, total) ELSE 0,
                           IF total > 0 THEN RoundDiv(100 * total_latency, total) ELSE 0)]

\* faulty variant: the operands are taken the other way round
saturating_sub_reversed(a, b) == IF b > a THEN b - a ELSE 0

\* smart.approved.saturating_sub(no_retry.approved)
saturating_sub(a, b) == IF a > b THEN a - b ELSE 0

generate_report(txns, s) ==
    LET no_retry_results == run_no_retry(txns)
        smart_retry_results == run_smart_retry(txns, s)
        no_retry_metrics == calculate_metrics(no_retry_results)
        smart_retry_metrics == calculate_metrics(smart_retry_results)
        additional_approvals ==
            saturating_sub(smart_retry_metrics.approved, no_retry_metrics.approved)
        rate_lift ==
            smart_retry_metrics.authorization_rate - no_retry_metrics.authorization_rate
        total_amount == Sum([i \in 1..Len(txns) |-> txns[i].amount], Len(txns))
        improvement ==
            ImprovementMetrics(rate_lift, additional_approvals,
                               IF Len(txns) = 0 THEN 0
                               ELSE RoundDiv(additional_approvals * total_amount, Len(txns)))
    IN  PerformanceReport(Len(txns), no_retry_metrics, smart_retry_metrics, improvement,
                          build_country_breakdown(txns, no_retry_results,
                                                  smart_retry_results),
                          build_psp_breakdown(smart_retry_results))

CallGenerateReport(s) ==
    /\ pc = "idle"
    /\ op' = "generate_report"
    /\ strategy' = s
    /\ report' = generate_report(transactions, s)
    /\ pc' = "done"
    /\ UNCHANGED callerVars
    /\ UNCHANGED <<transaction, psps, ordered_psps, next_psp, attempts,
                   total_latency_ms, attempt_number, result, transactions>>

\* the caller takes the result; the engine is ready for the next call
Return ==
    /\ pc = "done"
    /\ pc' = "idle"
    /\ op' = None
    /\ strategy' = None
    /\ ordered_psps' = <<>>
    /\ next_psp' = 1
    /\ attempts' = <<>>
    /\ total_latency_ms' = 0
    /\ attempt_number' = 0
    /\ result' = NoResult
    /\ report' = NoReport
    /\ count' = None
    /\ http_request' = NoRequest
    /\ http_response' = NoResponse
    /\ UNCHANGED <<transaction, psps, transactions, rng>>

-----------------------------------------------------------------------------
(* the transactions routed *)

MaxPsps == 4

CardRolls == {3, 50}

HardReasonRolls == {10, 60, 80, 95}

UnavailableRolls == {4, 50}

SuccessRolls == {50, 90}

ReasonRolls == {30, 70}

LatencyRolls == {0, 100}

PspIds(list) == {list[i].id : i \in 1..Len(list)}

\* A roll the simulator never draws for a card is held at one value: the
\* hard reason of a card that is no hard-decline card, the soft reason of a
\* card that is one.
Transactions(c, list, reasonRolls, latencyRolls) ==
    {t \in [country : {c},
            card_roll : CardRolls,
            hard_reason_roll : HardReasonRolls,
            unavailable_roll : [PspIds(list) -> UnavailableRolls],
            success_roll : [PspIds(list) -> SuccessRolls],
            reason_roll : [PspIds(list) -> reasonRolls],
            latency_roll : [PspIds(list) -> latencyRolls]] :
        /\ ~is_hard_decline_card(t) => t.hard_reason_roll = 10
        /\ is_hard_decline_card(t) => \A id \in PspIds(list) : t.reason_roll[id] = 30}

Idle ==
    /\ pc = "idle"
    /\ op = None
    /\ strategy = None
    /\ ordered_psps = <<>>
    /\ next_psp = 1
    /\ attempts = <<>>
    /\ total_latency_ms = 0
    /\ attempt_number = 0
    /\ result = NoResult
    /\ report = NoReport
    /\ count = None
    /\ http_request = NoRequest
    /\ http_response = NoResponse

\* a transaction of one of the three countries, with the catalog's PSP list
Init ==
    /\ \E c \in Countries :
          /\ psps = get_psps_for_country(c)
          /\ transaction \in Transactions(c, psps, ReasonRolls, LatencyRolls)
    /\ transactions = <<>>
    /\ rng = NoRng
    /\ Idle

\* the PSPs of country c first, then those of the other countries
CatalogFrom(c) ==
    get_psps_for_country(c)
        \o SelectSeq(get_all_psps, LAMBDA psp : psp.country # c)

\* The engine over a PSP list of any length up to MaxPsps: the country's
\* list cut short, or continued with PSPs of the other countries.  Latency
\* and soft-reason draws are held at one value.
InitAnyList ==
    /\ \E c \in Countries, n \in 0..MaxPsps :
          /\ psps = SubSeq(CatalogFrom(c), 1, n)
          /\ transaction \in Transactions(c, psps, {30}, {0})
    /\ transactions = <<>>
    /\ rng = NoRng
    /\ Idle

Next ==
    \/ \E s \in Strategies : CallRoute(s)
    \/ RouteIteration
    \/ RouteExhausted
    \/ CallRouteNoRetry
    \/ Return

Spec == Init /\ [][Next]_vars

SpecAnyList == InitAnyList /\ [][Next]_vars

\* a transaction of one of the three countries, with the catalog's PSP list;
\* latency and soft-reason draws are held at one value
InitFair ==
    /\ \E c \in Countries :
          /\ psps = get_psps_for_country(c)
          /\ transaction \in Transactions(c, psps, {30}, {0})
    /\ transactions = <<>>
    /\ rng = NoRng
    /\ Idle

\* route is an ordinary function call: once entered, its for loop runs on
\* until it returns
SpecFair == InitFair /\ [][Next]_vars /\ WF_vars(RouteIteration \/ RouteExhausted)

-----------------------------------------------------------------------------
(* select_psp_order over the PSP lists of the tests of engine/strategy.rs *)

\* make_psp of the tests of engine/strategy.rs
make_psp(id, success_rate, fee_pct, fee_fixed) ==
    PspConfig(id, id, "Brazil", success_rate, 100, 300, fee_pct, fee_fixed)

TestRates == {65, 85}

\* fee_pct and fee_fixed
TestFees == {<<0, 0>>, <<250, 30>>}

\* the value of transaction while no transaction is routed
NoTransaction == [country |-> None]

\* Lists of up to MaxPsps PSPs made by make_psp, the PSP at position i with
\* the id i: equal rates and equal fees occur, and lists whose fees are all 0.
InitStrategy ==
    /\ \E n \in 0..MaxPsps :
          \E rate \in [1..n -> TestRates], fee \in [1..n -> TestFees] :
             psps = [i \in 1..n |->
                        make_psp(ToString(i), rate[i], fee[i][1], fee[i][2])]
    /\ transaction = NoTransaction
    /\ transactions = <<>>
    /\ rng = NoRng
    /\ Idle

NextStrategy ==
    \/ \E s \in Strategies : CallSelectPspOrder(s)
    \/ Return

SpecStrategy == InitStrategy /\ [][NextStrategy]_vars

-----------------------------------------------------------------------------
(* generate_report over batches of transactions *)

MaxBatch == 2

\* amount, in cents
Amounts == {15000}

\* The draws that give a transaction (card_roll) and each PSP of its country
\* (unavailable_roll, success_roll) a chosen answer: the first PSP of the
\* catalog answers first, the other two answer rest.
DrawsFor(c, card_roll, first, rest) ==
    LET list == get_psps_for_country(c)
        answer(id) == IF id = list[1].id THEN first ELSE rest
    IN  [country |-> c,
         card_roll |-> card_roll,
         hard_reason_roll |-> 10,
         unavailable_roll |->
             [id \in PspIds(list) |-> IF answer(id) = "PspUnavailable" THEN 4 ELSE 50],
         success_roll |->
             [id \in PspIds(list) |-> IF answer(id) = "Declined" THEN 90 ELSE 50],
         reason_roll |-> [id \in PspIds(list) |-> 30],
         latency_roll |-> [id \in PspIds(list) |-> 0]]

\* the answers of the first PSP and of the other two to a card that is no
\* hard-decline card
BatchAnswers ==
    {<<"Approved", "Approved">>, <<"Approved", "Declined">>,
     <<"Declined", "Approved">>, <<"Declined", "Declined">>,
     <<"PspUnavailable", "Approved">>, <<"PspUnavailable", "PspUnavailable">>}

\* the draws of the transactions of a batch: a hard-decline card, or one of
\* BatchAnswers, in each country
BatchDraws ==
    {DrawsFor(c, 3, "Approved", "Approved") : c \in Countries}
        \cup {DrawsFor(c, 50, a[1], a[2]) : c \in Countries, a \in BatchAnswers}

\* the id of the transaction at position i of a batch
TxnId(i) == "txn_" \o ToString(i)

\* A batch of up to MaxBatch transactions.  A transaction has an id of its
\* own or the id of the first one; transactions with one id and one country
\* share the draws seeded by the transaction id (make_psp_seed).
InitReport ==
    /\ \E n \in 0..MaxBatch :
          \E ids \in [1..n -> {TxnId(i) : i \in 1..n}],
             amount \in [1..n -> Amounts],
             draws \in [1..n -> BatchDraws] :
             /\ \A i \in 1..n : ids[i] \in {TxnId(1), TxnId(i)}
             /\ \A i, j \in 1..n :
                   ids[i] = ids[j] /\ draws[i].country = draws[j].country =>
                       /\ draws[i].unavailable_roll = draws[j].unavailable_roll
                       /\ draws[i].latency_roll = draws[j].latency_roll
             /\ transactions =
                   [i \in 1..n |-> [id |-> ids[i], amount |-> amount[i]] @@ draws[i]]
    /\ transaction = NoTransaction
    /\ psps = <<>>
    /\ rng = NoRng
    /\ Idle

NextReport ==
    \/ \E s \in Strategies : CallGenerateReport(s)
    \/ Return

SpecReport == InitReport /\ [][NextReport]_vars

-----------------------------------------------------------------------------
(* data: generate_test_data and get_test_dataset                            *)
(*                                                                         *)
(* The values StdRng yields are not computed: rng holds, for the BIN index *)
(* and for the amount, a stream of draws chosen in the initial state, the  *)
(* transaction at 0-based position i taking the draw at position           *)
(* i mod the stream's length.  Amount draws are in tenths of a cent.       *)
(* card_last4, customer_id and timestamp, which nothing reads, are left    *)
(* out of the transactions.                                                *)

BRAZIL_BINS == <<"411111", "510510", "376411">>
MEXICO_BINS == <<"424242", "551234", "371449">>
COLOMBIA_BINS == <<"431940", "520082", "378282">>

\* generate_test_data: countries, as [country, currency, bins]
countries ==
    << [country |-> "Brazil", currency |-> "BRL", bins |-> BRAZIL_BINS],
       [country |-> "Mexico", currency |-> "MXN", bins |-> MEXICO_BINS],
       [country |-> "Colombia", currency |-> "COP", bins |-> COLOMBIA_BINS] >>

\* format!("{:04}", n): the decimal numeral of n, filled with zeros on the
\* left to four digits
Pad4(n) ==
    IF n < 10 THEN "000" \o ToString(n)
    ELSE IF n < 100 THEN "00" \o ToString(n)
    ELSE IF n < 1000 THEN "0" \o ToString(n)
    ELSE ToString(n)

\* (amount * 100.0).round() / 100.0, from tenths of a cent to cents
round_to_cents(amount) == RoundDiv(amount, 10)

\* the draw of stream for the transaction at 0-based position i
Draw(stream, i) == stream[(i % Len(stream)) + 1]

\* faulty variant: the country of position i + 1
generate_test_data_country_shifted(n, r) ==
    [k \in 1..n |->
        LET i == k - 1
            entry == countries[((i + 1) % 3) + 1]
        IN  [id |-> "txn_" \o Pad4(i + 1),
             amount |-> round_to_cents(Draw(r.amount, i)),
             currency |-> entry.currency,
             country |-> entry.country,
             card_bin |-> entry.bins[Draw(r.bin, i) + 1]]]

generate_test_data(n, r) ==
    [k \in 1..n |->
        LET i == k - 1
            country_idx == i % 3
            entry == countries[country_idx + 1]
        IN  [id |-> "txn_" \o Pad4(i + 1),
             amount |-> round_to_cents(Draw(r.amount, i)),
             currency |-> entry.currency,
             country |-> entry.country,
             card_bin |-> entry.bins[Draw(r.bin, i) + 1]]]

get_test_dataset(r) == generate_test_data(210, r)

CallGenerateTestData(n) ==
    /\ pc = "idle"
    /\ op' = "generate_test_data"
    /\ count' = n
    /\ transactions' = generate_test_data(n, rng)
    /\ pc' = "done"
    /\ UNCHANGED <<transaction, psps, strategy, ordered_psps, next_psp, attempts,
                   total_latency_ms, attempt_number, result, report, rng,
                   http_request, http_response>>

CallGetTestDataset ==
    /\ pc = "idle"
    /\ op' = "get_test_dataset"
    /\ transactions' = get_test_dataset(rng)
    /\ pc' = "done"
    /\ UNCHANGED <<transaction, psps, strategy, ordered_psps, next_psp, attempts,
                   total_latency_ms, attempt_number, result, report, rng,
                   count, http_request, http_response>>

MaxCount == 7

\* the length of the streams of rng
RngPeriod == 2

\* amount draws, in tenths of a cent: generate_amount yields 10.0 to 500.0
AmountDraws == {10004, 499995}

RngStreams ==
    [bin : [1..RngPeriod -> 0..2], amount : [1..RngPeriod -> AmountDraws]]

InitData ==
    /\ rng \in RngStreams
    /\ transaction = NoTransaction
    /\ psps = <<>>
    /\ transactions = <<>>
    /\ pc = "idle"
    /\ op = None
    /\ strategy = None
    /\ ordered_psps = <<>>
    /\ next_psp = 1
    /\ attempts = <<>>
    /\ total_latency_ms = 0
    /\ attempt_number = 0
    /\ result = NoResult
    /\ report = NoReport
    /\ count = None
    /\ http_request = NoRequest
    /\ http_response = NoResponse

NextData ==
    \/ \E n \in 0..MaxCount : CallGenerateTestData(n)
    \/ CallGetTestDataset
    \/ Return

SpecData == InitData /\ [][NextData]_vars

-----------------------------------------------------------------------------
(* api: the handlers of /api/authorize and /api/report                      *)
(*                                                                         *)
(* A request is a method and a body.  A body serde_json cannot parse is    *)
(* InvalidBody, whatever its bytes; a body it parses is the record of the  *)
(* fields it yields, of kind "json".  The body of an authorize request     *)
(* carries, as draws,                                                      *)
(* the draws its card fields and amount seed in the simulator.  Amounts    *)
(* are in cents.  The handler's position is pc: "method_guard",            *)
(* "parse_body", "validate" and "route_call" in authorize, "method_guard", *)
(* "read_body" and "generate" in report.                                   *)

InvalidBody == [kind |-> "invalid"]

EmptyBody == [kind |-> "empty"]

\* transaction_count: None
NoCount == 0 - 1

DEFAULT_TRANSACTION_COUNT == 200

\* json_response(status, {"error": ...}) and json_response(StatusCode::OK, body)
ErrorResponse(status, error) == [status |-> status, error |-> error, body |-> None]

OkResponse(body) == [status |-> 200, error |-> None, body |-> body]

parse_currency(s) == IF s \in {"BRL", "MXN", "COP"} THEN s ELSE None

parse_country(s) == IF s \in {"Brazil", "Mexico", "Colombia"} THEN s ELSE None

\* faulty variant: customer_id is not looked at
validate_request_without_customer_id(req) ==
    IF req.amount <= 0 THEN "amount must be greater than 0"
    ELSE IF parse_currency(req.currency) = None THEN "Invalid currency"
    ELSE IF parse_country(req.country) = None THEN "Invalid country"
    ELSE IF req.card_bin = "" THEN "card_bin must not be empty"
    ELSE IF req.card_last4 = "" THEN "card_last4 must not be empty"
    ELSE "Ok"

\* "Ok", or the message of the first check that fails
validate_request(req) ==
    IF req.amount <= 0 THEN "amount must be greater than 0"
    ELSE IF parse_currency(req.currency) = None THEN "Invalid currency"
    ELSE IF parse_country(req.country) = None THEN "Invalid country"
    ELSE IF req.card_bin = "" THEN "card_bin must not be empty"
    ELSE IF req.card_last4 = "" THEN "card_last4 must not be empty"
    ELSE IF req.customer_id = "" THEN "customer_id must not be empty"
    ELSE "Ok"

\* the hash is not computed: the id is the tuple of the fields it is made of
generate_transaction_id(req) ==
    <<"txn_", req.card_bin, req.card_last4, req.customer_id, req.amount>>

\* routing_strategy.unwrap_or_default()
unwrap_or_default(s) == IF s = None THEN "OptimizeForApprovals" ELSE s

ReceiveRequest(endpoint, req) ==
    /\ pc = "idle"
    /\ op' = endpoint
    /\ http_request' = req
    /\ pc' = "method_guard"
    /\ UNCHANGED <<transaction, psps, strategy, ordered_psps, next_psp, attempts,
                   total_latency_ms, attempt_number, result, transactions, report,
                   rng, count, http_response>>

\* authorize, 1: only POST is accepted
AuthorizeMethodGuard ==
    /\ pc = "method_guard"
    /\ op = "authorize"
    /\ IF http_request.method # "POST"
       THEN /\ http_response' = ErrorResponse(405, "Method not allowed")
            /\ pc' = "done"
       ELSE /\ pc' = "parse_body"
            /\ UNCHANGED http_response
    /\ UNCHANGED <<transaction, psps, op, strategy, ordered_psps, next_psp, attempts,
                   total_latency_ms, attempt_number, result, transactions, report,
                   rng, count, http_request>>

\* authorize, 2: serde_json::from_slice(body_bytes)
AuthorizeParseBody ==
    /\ pc = "parse_body"
    /\ op = "authorize"
    /\ IF http_request.body = InvalidBody
       THEN /\ http_response' = ErrorResponse(400, "Invalid request body")
            /\ pc' = "done"
       ELSE /\ pc' = "validate"
            /\ UNCHANGED http_response
    /\ UNCHANGED <<transaction, psps, op, strategy, ordered_psps, next_psp, attempts,
                   total_latency_ms, attempt_number, result, transactions, report,
                   rng, count, http_request>>

\* authorize, 3 to 5: validate_request, parse_currency, parse_country and the
\* Transaction built from the request
AuthorizeValidate ==
    /\ pc = "validate"
    /\ op = "authorize"
    /\ LET auth_request == http_request.body
           currency == parse_currency(auth_request.currency)
           country == parse_country(auth_request.country)
       IN  IF validate_request(auth_request) # "Ok" \/ currency = None \/ country = None
           THEN /\ http_response' = ErrorResponse(400, "Validation failed")
                /\ pc' = "done"
                /\ UNCHANGED transaction
           ELSE /\ transaction' =
                      [id |-> generate_transaction_id(auth_request),
                       amount |-> auth_request.amount,
                       currency |-> currency]
                          @@ DrawsFor(country, auth_request.draws[1],
                                      auth_request.draws[2], auth_request.draws[3])
                /\ pc' = "route_call"
                /\ UNCHANGED http_response
    /\ UNCHANGED <<psps, op, strategy, ordered_psps, next_psp, attempts,
                   total_latency_ms, attempt_number, result, transactions, report,
                   rng, count, http_request>>

\* authorize, 6 and 7: engine.route(&transaction, &strategy) and the answer
AuthorizeRoute ==
    /\ pc = "route_call"
    /\ op = "authorize"
    /\ strategy' = unwrap_or_default(http_request.body.routing_strategy)
    /\ psps' = get_psps_for_country(transaction.country)
    /\ result' = RouteResult(transaction, psps', strategy')
    /\ http_response' = OkResponse(result')
    /\ pc' = "done"
    /\ UNCHANGED <<transaction, op, ordered_psps, next_psp, attempts,
                   total_latency_ms, attempt_number, transactions, report,
                   rng, count, http_request>>

\* report: only POST is accepted
ReportMethodGuard ==
    /\ pc = "method_guard"
    /\ op = "report"
    /\ IF http_request.method # "POST"
       THEN /\ http_response' = ErrorResponse(405, "Method not allowed")
            /\ pc' = "done"
       ELSE /\ pc' = "read_body"
            /\ UNCHANGED http_response
    /\ UNCHANGED <<transaction, psps, op, strategy, ordered_psps, next_psp, attempts,
                   total_latency_ms, attempt_number, result, transactions, report,
                   rng, count, http_request>>

\* report: the parameters of the body, or the defaults
ReportReadBody ==
    /\ pc = "read_body"
    /\ op = "report"
    /\ LET body == http_request.body IN
       IF body = EmptyBody
       THEN /\ count' = DEFAULT_TRANSACTION_COUNT
            /\ strategy' = "OptimizeForApprovals"
            /\ pc' = "generate"
            /\ UNCHANGED http_response
       ELSE IF body = InvalidBody
       THEN /\ http_response' = ErrorResponse(400, "Bad request")
            /\ pc' = "done"
            /\ UNCHANGED <<count, strategy>>
       ELSE /\ count' = IF body.transaction_count = NoCount
                        THEN DEFAULT_TRANSACTION_COUNT ELSE body.transaction_count
            /\ strategy' = IF body.routing_strategy = None
                           THEN "OptimizeForApprovals" ELSE body.routing_strategy
            /\ pc' = "generate"
            /\ UNCHANGED http_response
    /\ UNCHANGED <<transaction, psps, op, ordered_psps, next_psp, attempts,
                   total_latency_ms, attempt_number, result, transactions, report,
                   rng, http_request>>

\* the draws of the transactions an authorize request or a generated batch
\* holds: card_roll and the answers of the first PSP and of the others
ApiDraws ==
    {<<3, "Approved", "Approved">>, <<50, "PspUnavailable", "Approved">>,
     <<50, "Declined", "Declined">>}

\* report: generate_test_data(count) and generate_report; the draws the
\* generated transactions seed repeat with period 2
ReportGenerate ==
    /\ pc = "generate"
    /\ op = "report"
    /\ \E draws \in [0..1 -> ApiDraws] :
          transactions' =
              [k \in 1..count |->
                  LET t == generate_test_data(count, rng)[k]
                      d == draws[(k - 1) % 2]
                  IN  t @@ DrawsFor(t.country, d[1], d[2], d[3])]
    /\ report' = generate_report(transactions', strategy)
    /\ http_response' = OkResponse(report')
    /\ pc' = "done"
    /\ UNCHANGED <<transaction, psps, op, strategy, ordered_psps, next_psp, attempts,
                   total_latency_ms, attempt_number, result, rng, count,
                   http_request>>

\* the response is sent; the function holds no state between requests
HandlerReturn ==
    /\ pc = "done"
    /\ pc' = "idle"
    /\ op' = None
    /\ strategy' = None
    /\ transaction' = NoTransaction
    /\ psps' = <<>>
    /\ result' = NoResult
    /\ transactions' = <<>>
    /\ report' = NoReport
    /\ count' = None
    /\ http_request' = NoRequest
    /\ http_response' = NoResponse
    /\ UNCHANGED <<ordered_psps, next_psp, attempts, total_latency_ms,
                   attempt_number, rng>>

Methods == {"POST", "GET"}

\* amount, in cents
RequestAmounts == {0 - 100, 0, 10000}

AuthorizeBodies ==
    {InvalidBody} \cup
        [kind : {"json"},
         amount : RequestAmounts,
         currency : {"BRL", "MXN", "COP", "USD"},
         country : {"Brazil", "Mexico", "Colombia", "Peru"},
         card_bin : {"", "411111"},
         card_last4 : {"", "1234"},
         customer_id : {"", "cust_001"},
         routing_strategy : Strategies \cup {None},
         draws : ApiDraws]

ReportBodies ==
    {EmptyBody, InvalidBody} \cup
        [kind : {"json"},
         transaction_count : {NoCount, 0, 2, 4},
         routing_strategy : Strategies \cup {None}]

InitApi ==
    /\ rng = [bin |-> [k \in 1..RngPeriod |-> k % 3],
              amount |-> [k \in 1..RngPeriod |-> 10004]]
    /\ transaction = NoTransaction
    /\ psps = <<>>
    /\ transactions = <<>>
    /\ Idle

NextApi ==
    \/ \E m \in Methods, body \in AuthorizeBodies :
          ReceiveRequest("authorize", [method |-> m, body |-> body])
    \/ \E m \in Methods, body \in ReportBodies :
          ReceiveRequest("report", [method |-> m, body |-> body])
    \/ AuthorizeMethodGuard
    \/ AuthorizeParseBody
    \/ AuthorizeValidate
    \/ AuthorizeRoute
    \/ ReportMethodGuard
    \/ ReportReadBody
    \/ ReportGenerate
    \/ HandlerReturn

SpecApi == InitApi /\ [][NextApi]_vars

-----------------------------------------------------------------------------
(* Properties *)

RECURSIVE CountedUpTo(_, _)
\* the number of atts[1..i] whose decline_reason is not PspUnavailable
CountedUpTo(atts, i) ==
    IF i = 0 THEN 0
    ELSE CountedUpTo(atts, i - 1)
            + (IF atts[i].decline_reason = "PspUnavailable" THEN 0 ELSE 1)

Counted(atts) == CountedUpTo(atts, Len(atts))

RECURSIVE LatencyUpTo(_, _)
LatencyUpTo(atts, i) ==
    IF i = 0 THEN 0 ELSE LatencyUpTo(atts, i - 1) + atts[i].latency_ms

SumLatency(atts) == LatencyUpTo(atts, Len(atts))

Returned(o) == pc = "done" /\ op = o

HasCascade(atts) ==
    \E i \in 1..Len(atts) : atts[i].decline_reason = "PspUnavailable"

\* C1: the RoutingResult route returns holds at most MAX_ATTEMPTS = 3 attempts
\* whose decline_reason is not PspUnavailable, also for PSP lists longer than 3.
C1_AttemptBound ==
    Returned("route") => Counted(result.attempts) <= 3

\* route stopped at the third counted decline with PSPs left untried
C1_Witness ==
    /\ Returned("route")
    /\ Len(psps) > 3
    /\ Counted(result.attempts) = 3
    /\ ~result.approved
    /\ Len(result.attempts) < Len(psps)

\* C2: in every RoutingResult of route and route_no_retry, approved holds iff
\* final_psp is present, and when approved the last recorded attempt is approved
\* and carries final_psp as its psp_name.
C2_ResultConsistency ==
    pc = "done" =>
        /\ result.approved <=> result.final_psp # None
        /\ result.approved =>
              /\ Len(result.attempts) >= 1
              /\ result.attempts[Len(result.attempts)].approved
              /\ result.attempts[Len(result.attempts)].psp_name = result.final_psp

\* route approved on a retry
C2_Witness ==
    /\ Returned("route")
    /\ result.approved
    /\ Len(result.attempts) >= 2

\* C3 as stated: in every RoutingResult of route and of route_no_retry,
\* total_attempts is the number of recorded attempts whose decline_reason is not
\* PspUnavailable.
C3_Original ==
    pc = "done" => result.total_attempts = Counted(result.attempts)

\* C3 amended: the RoutingResult of route has total_attempts equal to the
\* number of recorded attempts whose decline_reason is not PspUnavailable; the
\* RoutingResult of route_no_retry for a country with PSPs has one attempt and
\* total_attempts = 1, whatever the response, PspUnavailable included.
C3_TotalAttempts ==
    /\ Returned("route") => result.total_attempts = Counted(result.attempts)
    /\ Returned("route_no_retry") /\ Len(psps) > 0 =>
          Len(result.attempts) = 1 /\ result.total_attempts = 1

\* route recorded a cascade beside a counted attempt
C3_Witness ==
    /\ Returned("route")
    /\ HasCascade(result.attempts)
    /\ result.total_attempts >= 1
    /\ Len(result.attempts) > result.total_attempts

\* C4: in every RoutingResult of route and route_no_retry, total_latency_ms is
\* the sum of latency_ms over all recorded attempts, cascades included.
C4_LatencyAdditivity ==
    pc = "done" => result.total_latency_ms = SumLatency(result.attempts)

\* route returned after a cascade and at least one more attempt
C4_Witness ==
    /\ Returned("route")
    /\ HasCascade(result.attempts)
    /\ Len(result.attempts) >= 2
    /\ result.total_latency_ms > result.attempts[Len(result.attempts)].latency_ms

\* the simulator's answer for the i-th PSP of the strategy order
Answer(order, i) == process(transaction, order[i])

\* the number of soft declines among the answers before position i
SoftBefore(order, i) ==
    Cardinality({j \in 1..(i - 1) : Answer(order, j).decline_reason \in
        {"IssuerUnavailable", "SuspectedFraud", "DoNotHonor", "ProcessorDeclined"}})

\* the positions whose answer ends the walk: an approval, a hard decline, or
\* the third soft decline
Stops(order) ==
    {i \in 1..Len(order) :
        \/ Answer(order, i).approved
        \/ Answer(order, i).decline_reason \in
              {"InsufficientFunds", "CardExpired", "InvalidCard", "StolenCard"}
        \/ /\ Answer(order, i).decline_reason \in
                {"IssuerUnavailable", "SuspectedFraud", "DoNotHonor", "ProcessorDeclined"}
           /\ SoftBefore(order, i) = 2}

Min(S) == CHOOSE i \in S : \A j \in S : i <= j

\* C5: route returns approved = true exactly when, walking the PSPs in strategy
\* order and skipping PspUnavailable answers, an approving PSP is reached before
\* any hard decline and before three soft declines have been counted; otherwise
\* (hard decline first, third soft decline first, or list exhausted) it returns
\* approved = false; the attempts are those made up to the stopping point.
C5_RouteOutcome ==
    Returned("route") =>
        LET order == select_psp_order(psps, strategy)
            last == IF Stops(order) = {} THEN Len(order) ELSE Min(Stops(order))
        IN  /\ result.approved <=> (Stops(order) # {} /\ Answer(order, last).approved)
            /\ Len(result.attempts) = last
            /\ \A i \in 1..last :
                  /\ result.attempts[i].psp_id = order[i].id
                  /\ result.attempts[i].approved = Answer(order, i).approved
                  /\ result.attempts[i].decline_reason = Answer(order, i).decline_reason

\* route approved at the fourth PSP, after a cascade and two soft declines
C5_Witness ==
    /\ Returned("route")
    /\ result.approved
    /\ Len(result.attempts) = 4
    /\ result.total_attempts = 3
    /\ HasCascade(result.attempts)

\* C6: a hard decline (InsufficientFunds, CardExpired, InvalidCard, StolenCard)
\* is never retried: route stops at it, consults no further PSP and returns
\* approved = false, so a hard-decline attempt is the last recorded attempt.
C6_HardDeclineStops ==
    \A i \in 1..Len(attempts) :
        attempts[i].decline_reason \in
            {"InsufficientFunds", "CardExpired", "InvalidCard", "StolenCard"} =>
                /\ i = Len(attempts)
                /\ pc = "done"
                /\ ~result.approved
                /\ result.attempts = attempts

\* route returned at a hard decline with PSPs left untried
C6_Witness ==
    /\ Returned("route")
    /\ Len(result.attempts) >= 1
    /\ result.attempts[Len(result.attempts)].decline_reason \in
          {"InsufficientFunds", "CardExpired", "InvalidCard", "StolenCard"}
    /\ Len(result.attempts) < Len(ordered_psps)

\* the loop is at a PSP whose answer is PspUnavailable
AtCascade ==
    /\ pc = "route"
    /\ next_psp <= Len(ordered_psps)
    /\ process(transaction, ordered_psps[next_psp]).decline_reason = "PspUnavailable"

\* C7: a PspUnavailable answer never ends routing while PSPs remain and never
\* consumes retry budget: the loop goes on to the next PSP with the number of
\* counted attempts unchanged, and a result whose last attempt is a cascade
\* has consulted every PSP of the strategy order.
C7_Cascade ==
    /\ [][AtCascade =>
            /\ pc' = "route"
            /\ next_psp' = next_psp + 1
            /\ attempt_number' = attempt_number
            /\ Len(attempts') = Len(attempts) + 1
            /\ attempts'[Len(attempts')].decline_reason = "PspUnavailable"]_vars
    /\ [](Returned("route") /\ Len(result.attempts) >= 1
            /\ result.attempts[Len(result.attempts)].decline_reason = "PspUnavailable"
          => Len(result.attempts) = Len(ordered_psps))

\* route cascaded past the first PSP and approved on the next
C7_Witness ==
    /\ Returned("route")
    /\ Len(result.attempts) = 2
    /\ result.attempts[1].decline_reason = "PspUnavailable"
    /\ result.attempts[2].approved
    /\ result.total_attempts = 1

\* the first PSP of each country's list in the catalog
FirstInCatalog(c) ==
    CASE c = "Brazil" -> "psp_br_1"
      [] c = "Mexico" -> "psp_mx_1"
      [] c = "Colombia" -> "psp_co_1"

\* C8: route_no_retry consults exactly one PSP, the first of the country's list
\* in catalog order (psp_br_1, psp_mx_1, psp_co_1), and returns one attempt,
\* numbered 1, whose approved flag, reason and latency are the simulator's.
C8_NoRetrySingleAttempt ==
    Returned("route_no_retry") =>
        LET response == process(transaction, get_psps_for_country(transaction.country)[1])
        IN  /\ Len(result.attempts) = 1
            /\ result.total_attempts = 1
            /\ result.attempts[1].psp_id = FirstInCatalog(transaction.country)
            /\ response.psp_id = FirstInCatalog(transaction.country)
            /\ result.attempts[1].attempt_number = 1
            /\ result.attempts[1].approved = response.approved
            /\ result.attempts[1].decline_reason = response.decline_reason
            /\ result.attempts[1].latency_ms = response.latency_ms
            /\ result.approved = response.approved
            /\ result.total_latency_ms = response.latency_ms

\* route_no_retry returned where the approvals order starts at another PSP
C8_Witness ==
    /\ Returned("route_no_retry")
    /\ Len(result.attempts) = 1
    /\ select_psp_order(psps, "OptimizeForApprovals")[1].id # result.attempts[1].psp_id

\* C9: if process(t, p1) returns a hard-class decline reason then process(t, p2)
\* is non-approved with that same hard reason or PspUnavailable, for all PSPs
\* p1, p2 of the list.
C9_CrossPspHardDecline ==
    \A i, j \in 1..Len(psps) :
        LET r1 == process(transaction, psps[i])
            r2 == process(transaction, psps[j])
        IN  r1.decline_reason \in
                {"InsufficientFunds", "CardExpired", "InvalidCard", "StolenCard"} =>
                    /\ ~r2.approved
                    /\ r2.decline_reason \in {r1.decline_reason, "PspUnavailable"}

\* a call returned the hard decline of a card whose rolls differ between PSPs
C9_Witness ==
    /\ pc = "done"
    /\ Len(result.attempts) = 1
    /\ result.attempts[1].decline_reason = "StolenCard"
    /\ \E a, b \in PspIds(psps) :
          /\ transaction.success_roll[a] # transaction.success_roll[b]
          /\ transaction.unavailable_roll[a] # transaction.unavailable_roll[b]

\* C10 as stated: every route call for a country that has PSPs returns
\* total_attempts >= 1 and a non-empty attempts list.
C10_Original ==
    Returned("route") /\ Len(psps) > 0 =>
        result.total_attempts >= 1 /\ Len(result.attempts) >= 1

\* C10 amended: every route call for a country that has PSPs returns a
\* non-empty attempts list, and total_attempts >= 1 unless every PSP of the
\* country answered PspUnavailable; then every PSP has its cascade attempt
\* recorded, total_attempts = 0 and approved = false.
C10_AtLeastOneAttempt ==
    Returned("route") /\ Len(psps) > 0 =>
        /\ Len(result.attempts) >= 1
        /\ IF \A i \in 1..Len(psps) :
                 process(transaction, psps[i]).decline_reason = "PspUnavailable"
           THEN /\ result.total_attempts = 0
                /\ ~result.approved
                /\ Len(result.attempts) = Len(psps)
                /\ \A i \in 1..Len(result.attempts) :
                      result.attempts[i].decline_reason = "PspUnavailable"
           ELSE result.total_attempts >= 1

\* route returned after every PSP of the country answered PspUnavailable
C10_Witness ==
    /\ Returned("route")
    /\ Len(result.attempts) = 3
    /\ result.total_attempts = 0

\* the number of the three classifiers of engine/retry.rs that hold of reason
Classes(reason) ==
    (IF is_hard_decline(reason) THEN 1 ELSE 0)
        + (IF is_soft_decline(reason) THEN 1 ELSE 0)
        + (IF is_psp_unavailable(reason) THEN 1 ELSE 0)

\* C11: for each of the nine DeclineReason variants exactly one of
\* is_hard_decline, is_soft_decline and is_psp_unavailable of engine/retry.rs
\* holds; so it is for the reason of every attempt route has classified.
C11_ClassificationExhaustive ==
    /\ \A reason \in {"InsufficientFunds", "CardExpired", "InvalidCard",
                      "StolenCard", "IssuerUnavailable", "SuspectedFraud",
                      "DoNotHonor", "ProcessorDeclined", "PspUnavailable"} :
          Classes(reason) = 1
    /\ \A i \in 1..Len(attempts) :
          attempts[i].decline_reason # None => Classes(attempts[i].decline_reason) = 1

\* route has classified a PspUnavailable answer and a soft decline
C11_Witness ==
    /\ Returned("route")
    /\ \E i, j \in 1..Len(result.attempts) :
          /\ result.attempts[i].decline_reason = "PspUnavailable"
          /\ result.attempts[j].decline_reason = "DoNotHonor"

\* C13: in every RoutingResult of route every attempt_number is >= 1; the
\* counted attempts (decline_reason not PspUnavailable) carry 1, 2, ...,
\* total_attempts in order; a PspUnavailable attempt carries the number of
\* attempts counted before it plus one; attempt_number never decreases along
\* the list.
C13_AttemptNumbering ==
    Returned("route") =>
        LET atts == result.attempts IN
        /\ \A i \in 1..Len(atts) :
              /\ atts[i].attempt_number >= 1
              /\ IF atts[i].decline_reason = "PspUnavailable"
                 THEN atts[i].attempt_number = CountedUpTo(atts, i - 1) + 1
                 ELSE atts[i].attempt_number = CountedUpTo(atts, i)
        /\ {atts[i].attempt_number :
               i \in {j \in 1..Len(atts) : atts[j].decline_reason # "PspUnavailable"}}
             = 1..result.total_attempts
        /\ \A i \in 1..Len(atts) - 1 :
              atts[i].attempt_number <= atts[i + 1].attempt_number

\* route returned a soft decline numbered 1, a cascade attempt numbered 2 and
\* a counted attempt numbered 2 after it
C13_Witness ==
    /\ Returned("route")
    /\ Len(result.attempts) = 3
    /\ result.attempts[1].decline_reason \in SoftReasons
    /\ result.attempts[1].attempt_number = 1
    /\ result.attempts[2].decline_reason = "PspUnavailable"
    /\ result.attempts[2].attempt_number = 2
    /\ result.attempts[3].decline_reason # "PspUnavailable"
    /\ result.attempts[3].attempt_number = 2

\* a and b hold the same elements, each as often in a as in b
IsPermutation(a, b) ==
    /\ Len(a) = Len(b)
    /\ \A i \in 1..Len(b) :
          Cardinality({j \in 1..Len(a) : a[j] = b[i]})
              = Cardinality({j \in 1..Len(b) : b[j] = b[i]})

\* C14: select_psp_order leaves its input list unchanged for every strategy,
\* and the list it returns is a permutation of the input.
C14_StrategyNonMutation ==
    /\ [][psps' = psps]_vars
    /\ [](Returned("select_psp_order") => IsPermutation(ordered_psps, psps))

\* select_psp_order returned an order that differs from its four-element input
C14_Witness ==
    /\ Returned("select_psp_order")
    /\ Len(psps) = 4
    /\ ordered_psps # psps
    /\ ordered_psps[1] = psps[4]

\* the position in list of the PSP with the id of psp
Position(list, psp) == CHOOSE k \in 1..Len(list) : list[k].id = psp.id

\* C15: the list select_psp_order returns is sorted descending by
\* base_success_rate under OptimizeForApprovals and ascending by total fee
\* (fee_percentage + fee_fixed_cents / 100) under OptimizeForCost; PSPs with
\* equal keys (under Balanced: equal balanced scores) keep their relative
\* input order.
C15_StrategyOrdering ==
    Returned("select_psp_order") =>
        \A i, j \in 1..Len(ordered_psps) :
            i < j =>
                LET a == ordered_psps[i]
                    b == ordered_psps[j]
                    fee_a == a.fee_percentage + a.fee_fixed_cents
                    fee_b == b.fee_percentage + b.fee_fixed_cents
                    max_fee == MaxFee(psps, Len(psps))
                    kept == Position(psps, a) < Position(psps, b)
                IN  CASE strategy = "OptimizeForApprovals" ->
                           /\ a.base_success_rate >= b.base_success_rate
                           /\ a.base_success_rate = b.base_success_rate => kept
                      [] strategy = "OptimizeForCost" ->
                           /\ fee_a <= fee_b
                           /\ fee_a = fee_b => kept
                      [] strategy = "Balanced" ->
                           balanced_score(a, max_fee) = balanced_score(b, max_fee) => kept

\* OptimizeForCost moved a cheaper PSP in front of two PSPs of equal fee,
\* which kept their order
C15_Witness ==
    /\ Returned("select_psp_order")
    /\ strategy = "OptimizeForCost"
    /\ Len(psps) = 3
    /\ total_fee(psps[1]) = total_fee(psps[2])
    /\ total_fee(psps[3]) < total_fee(psps[1])
    /\ ordered_psps = <<psps[3], psps[1], psps[2]>>

RECURSIVE ApprovedUpTo(_, _)
\* the number of approved RoutingResults among results[1..i]
ApprovedUpTo(results, i) ==
    IF i = 0 THEN 0
    ELSE ApprovedUpTo(results, i - 1) + (IF results[i].approved THEN 1 ELSE 0)

\* C16: for every batch of N transactions and every strategy generate_report
\* returns total_transactions = N, and on the no_retry side and on the
\* smart_retry side approved + declined = N with approved the number of
\* approved RoutingResults of that side.
C16_ReportCounting ==
    Returned("generate_report") =>
        LET N == Len(transactions)
            no_retry_results == run_no_retry(transactions)
            smart_retry_results == run_smart_retry(transactions, strategy)
        IN  /\ report.total_transactions = N
            /\ report.no_retry.approved + report.no_retry.declined = N
            /\ report.smart_retry.approved + report.smart_retry.declined = N
            /\ report.no_retry.approved = ApprovedUpTo(no_retry_results, N)
            /\ report.smart_retry.approved = ApprovedUpTo(smart_retry_results, N)

\* a report over two transactions: without retry one is approved and one
\* declined, with smart retry both are approved
C16_Witness ==
    /\ Returned("generate_report")
    /\ report.total_transactions = 2
    /\ report.no_retry.approved = 1
    /\ report.no_retry.declined = 1
    /\ report.smart_retry.approved = 2
    /\ report.smart_retry.declined = 0

C18_Original ==
    \E c \in Countries, s \in Strategies :
        \E t \in Transactions(c, get_psps_for_country(c), ReasonRolls, LatencyRolls) \cup {transaction} :
            /\ NoRetryResult(t, get_psps_for_country(t.country)).approved
            /\ ~RouteResult(t, get_psps_for_country(t.country), s).approved

\* C18 amended: with the catalog of three PSPs per country, for every
\* transaction and every strategy route approves whenever route_no_retry
\* approves, so smart retry never approves fewer transactions of a batch than
\* no-retry does.
C18_RetryNeverLoses ==
    /\ Returned("route") /\ NoRetryResult(transaction, psps).approved => result.approved
    /\ \A s \in Strategies :
          NoRetryResult(transaction, psps).approved =>
              RouteResult(transaction, psps, s).approved

\* route_no_retry approves at the first PSP of the catalog; route reaches
\* that PSP second, after a soft decline, and approves there
C18_Witness ==
    /\ Returned("route")
    /\ NoRetryResult(transaction, psps).approved
    /\ result.approved
    /\ result.total_attempts = 2
    /\ result.attempts[1].decline_reason \in SoftReasons
    /\ result.final_psp = psps[1].name

\* the attempts <<i, k>> (attempt k of result i) of results made at the PSP name
AttemptsAt(results, name) ==
    {ik \in UNION {{<<i, k>> : k \in 1..Len(results[i].attempts)} : i \in 1..Len(results)} :
        results[ik[1]].attempts[ik[2]].psp_name = name}

\* C19: by_psp is built from the attempts of the smart-retry results only;
\* for every PSP name total_attempts counts every recorded attempt at that
\* PSP, PspUnavailable ones too, approvals the approved ones, declines the
\* ones neither approved nor PspUnavailable, so total_attempts = approvals +
\* declines + the number of PspUnavailable attempts at that PSP.
C19_ByPspAccounting ==
    Returned("generate_report") =>
        LET smart == run_smart_retry(transactions, strategy)
            at(name) == AttemptsAt(smart, name)
            attempt(ik) == smart[ik[1]].attempts[ik[2]]
            unavailable(name) ==
                {ik \in at(name) : attempt(ik).decline_reason = "PspUnavailable"}
        IN  /\ DOMAIN report.by_psp = {name \in {get_all_psps[i].name : i \in 1..Len(get_all_psps)} : at(name) # {}}
            /\ \A name \in DOMAIN report.by_psp :
                  LET m == report.by_psp[name] IN
                  /\ m.total_attempts = Cardinality(at(name))
                  /\ m.approvals = Cardinality({ik \in at(name) : attempt(ik).approved})
                  /\ m.declines =
                        Cardinality({ik \in at(name) :
                            /\ ~attempt(ik).approved
                            /\ attempt(ik).decline_reason # "PspUnavailable"})
                  /\ m.total_attempts
                        = m.approvals + m.declines + Cardinality(unavailable(name))

\* a report whose by_psp has a PSP with two attempts, one approved and one
\* PspUnavailable
C19_Witness ==
    /\ Returned("generate_report")
    /\ \E name \in DOMAIN report.by_psp :
          /\ report.by_psp[name].total_attempts = 2
          /\ report.by_psp[name].approvals = 1
          /\ report.by_psp[name].declines = 0

\* C20: generate_report on an empty transaction list returns
\* total_transactions = 0, both ScenarioResults with approved = 0,
\* declined = 0 and every rate and average 0, additional_approvals = 0,
\* rate lift and estimated revenue 0, and empty by_country and by_psp maps;
\* no quotient with a zero divisor is computed.
C20_EmptyBatch ==
    Returned("generate_report") /\ Len(transactions) = 0 =>
        /\ report.total_transactions = 0
        /\ \A side \in {report.no_retry, report.smart_retry} :
              /\ side.approved = 0
              /\ side.declined = 0
              /\ side.authorization_rate = 0
              /\ side.avg_attempts = 0
              /\ side.avg_latency_ms = 0
        /\ report.improvement.additional_approvals = 0
        /\ report.improvement.rate_lift_percentage = 0
        /\ report.improvement.estimated_revenue_recovered_usd = 0
        /\ DOMAIN report.by_country = {}
        /\ DOMAIN report.by_psp = {}

\* generate_report returned for the empty batch
C20_Witness ==
    /\ Returned("generate_report")
    /\ transactions = <<>>
    /\ strategy = "Balanced"
    /\ report.total_transactions = 0

\* the PSP of the catalog with the id psp_id
CatalogPsp(psp_id) ==
    get_all_psps[CHOOSE k \in 1..Len(get_all_psps) : get_all_psps[k].id = psp_id]

\* C23: every PspResponse of process, approved, soft-declined, hard-declined
\* or PspUnavailable, has latency_min_ms <= latency_ms <= latency_max_ms of
\* the PSP asked; so has every attempt built from such a response.
C23_LatencyBounds ==
    /\ \A i \in 1..Len(psps) :
          LET response == process(transaction, psps[i]) IN
          /\ psps[i].latency_min_ms <= response.latency_ms
          /\ response.latency_ms <= psps[i].latency_max_ms
    /\ \A i \in 1..Len(attempts) :
          /\ CatalogPsp(attempts[i].psp_id).latency_min_ms <= attempts[i].latency_ms
          /\ attempts[i].latency_ms <= CatalogPsp(attempts[i].psp_id).latency_max_ms

\* route recorded a PspUnavailable answer at the PSP's latency_max_ms, then
\* an approval at the PSP's latency_min_ms
C23_Witness ==
    /\ Returned("route")
    /\ Len(result.attempts) = 2
    /\ result.attempts[1].decline_reason = "PspUnavailable"
    /\ result.attempts[1].latency_ms = CatalogPsp(result.attempts[1].psp_id).latency_max_ms
    /\ result.attempts[2].approved
    /\ result.attempts[2].latency_ms = CatalogPsp(result.attempts[2].psp_id).latency_min_ms

\* select_psp_order returned under Balanced for a list whose PSPs all have
\* total fee 0
BalancedWithoutFees ==
    /\ Returned("select_psp_order")
    /\ strategy = "Balanced"
    /\ Len(psps) > 0
    /\ \A i \in 1..Len(psps) : psps[i].fee_percentage + psps[i].fee_fixed_cents = 0

C26_ConsultationOrder ==
    /\ [](op = "route" =>
            LET order == select_psp_order(psps, strategy) IN
            /\ Len(attempts) <= Len(psps)
            /\ \A i \in 1..Len(attempts) : attempts[i].psp_id = order[i].id
            /\ \A i, j \in 1..Len(attempts) :
                  attempts[i].psp_id = attempts[j].psp_id => i = j
            /\ pc = "done" => result.attempts = attempts)
    /\ [][pc = "route" /\ pc' = "route" =>
             next_psp' = next_psp + 1 /\ Len(attempts') = Len(attempts) + 1]_vars
    /\ (pc = "route" ~> pc = "done")

\* route consulted all three PSPs of the country, in an order that is not the
\* catalog's
C26_Witness ==
    /\ Returned("route")
    /\ Len(result.attempts) = 3
    /\ result.attempts[1].psp_id # psps[1].id
    /\ \A i \in 1..3 : result.attempts[i].psp_id = select_psp_order(psps, strategy)[i].id

\* the number of the three methods of the DeclineReason type that hold of reason
MethodClasses(reason) ==
    (IF DeclineReason_is_hard_decline(reason) THEN 1 ELSE 0)
        + (IF DeclineReason_is_soft_decline(reason) THEN 1 ELSE 0)
        + (IF DeclineReason_is_psp_unavailable(reason) THEN 1 ELSE 0)

\* C27: for each of the nine DeclineReason variants (the reasons of the
\* recorded attempts among them) exactly one of the methods is_hard_decline,
\* is_soft_decline and is_psp_unavailable of the type holds, and each method
\* agrees with the function of the same name of engine/retry.rs.
C27_MethodsPartition ==
    \A reason \in {"InsufficientFunds", "CardExpired", "InvalidCard", "StolenCard",
                   "IssuerUnavailable", "SuspectedFraud", "DoNotHonor",
                   "ProcessorDeclined", "PspUnavailable"}
                  \cup ({attempts[i].decline_reason : i \in 1..Len(attempts)} \ {None}) :
        /\ MethodClasses(reason) = 1
        /\ DeclineReason_is_hard_decline(reason) <=> is_hard_decline(reason)
        /\ DeclineReason_is_soft_decline(reason) <=> is_soft_decline(reason)
        /\ DeclineReason_is_psp_unavailable(reason) <=> is_psp_unavailable(reason)

\* C28: a hard-decline card never gets PspUnavailable or an approval from any
\* PSP; route for such a card, under every strategy, returns exactly one
\* attempt, at the first PSP of the strategy order, with total_attempts = 1,
\* approved = false, no final_psp, and the hard reason route_no_retry reports.
C28_HardCardRoute ==
    is_hard_decline_card(transaction) =>
        /\ \A i \in 1..Len(psps) :
              LET response == process(transaction, psps[i]) IN
              /\ ~response.approved
              /\ response.decline_reason
                    \in {"InsufficientFunds", "CardExpired", "InvalidCard", "StolenCard"}
        /\ Returned("route") =>
              /\ Len(result.attempts) = 1
              /\ result.attempts[1].psp_id = select_psp_order(psps, strategy)[1].id
              /\ result.total_attempts = 1
              /\ ~result.approved
              /\ result.final_psp = None
              /\ result.attempts[1].decline_reason
                    \in {"InsufficientFunds", "CardExpired", "InvalidCard", "StolenCard"}
              /\ result.attempts[1].decline_reason
                    = NoRetryResult(transaction, psps).attempts[1].decline_reason

\* route returned for a stolen card whose draws would have made the first PSP
\* of the order unavailable, and every PSP approve
C28_Witness ==
    /\ Returned("route")
    /\ is_hard_decline_card(transaction)
    /\ transaction.unavailable_roll[ordered_psps[1].id] < PSP_UNAVAILABLE_RATE
    /\ \A i \in 1..Len(psps) :
          transaction.success_roll[psps[i].id] < psps[i].base_success_rate
    /\ Len(result.attempts) = 1
    /\ result.attempts[1].decline_reason = "StolenCard"

\* the positions of the transactions of country c in the batch
OfCountry(c) == {i \in 1..Len(transactions) : transactions[i].country = c}

\* C29: for every batch, batches in which two transactions share an id
\* included, by_country[c] has total_transactions equal to the number of
\* transactions of country c, and its rates are computed from the number of
\* those transactions whose own no-retry / smart-retry result is approved.
C29_OwnResultPerCountry ==
    Returned("generate_report") =>
        LET no_retry_results == run_no_retry(transactions)
            smart_retry_results == run_smart_retry(transactions, strategy)
        IN  /\ DOMAIN report.by_country = {c \in Countries : OfCountry(c) # {}}
            /\ \A c \in DOMAIN report.by_country :
                  LET total == Cardinality(OfCountry(c))
                      m == report.by_country[c]
                  IN  /\ m.total_transactions = total
                      /\ m.no_retry_rate =
                            RoundDiv(100 * 100 * Cardinality({i \in OfCountry(c) :
                                         no_retry_results[i].approved}), total)
                      /\ m.smart_retry_rate =
                            RoundDiv(100 * 100 * Cardinality({i \in OfCountry(c) :
                                         smart_retry_results[i].approved}), total)

RECURSIVE SetSum(_, _)
\* the sum of f[x] over the x in S
SetSum(f, S) ==
    IF S = {} THEN 0
    ELSE LET x == CHOOSE y \in S : TRUE IN f[x] + SetSum(f, S \ {x})

\* C30: in every report the approvals of all by_psp entries sum to
\* smart_retry.approved (an approved smart-retry result has exactly one
\* approved attempt, a declined one none) and the total_attempts of all by_psp
\* entries sum to the number of attempts recorded across the smart-retry
\* results.
C30_ByPspSums ==
    Returned("generate_report") =>
        LET smart == run_smart_retry(transactions, strategy)
            names == DOMAIN report.by_psp
        IN  /\ SetSum([name \in names |-> report.by_psp[name].approvals], names)
                  = report.smart_retry.approved
            /\ SetSum([name \in names |-> report.by_psp[name].total_attempts], names)
                  = Sum([i \in 1..Len(smart) |-> Len(smart[i].attempts)], Len(smart))
            /\ \A i \in 1..Len(smart) :
                  Cardinality({k \in 1..Len(smart[i].attempts) : smart[i].attempts[k].approved})
                      = IF smart[i].approved THEN 1 ELSE 0

\* a report over two transactions: one approved at the second attempt, one
\* declined after three, five attempts in all
C30_Witness ==
    /\ Returned("generate_report")
    /\ Len(transactions) = 2
    /\ report.smart_retry.approved = 1
    /\ LET names == DOMAIN report.by_psp IN
       SetSum([name \in names |-> report.by_psp[name].total_attempts], names) = 5

\* the value of a decimal digit
DigitValue(ch) ==
    CASE ch = "0" -> 0 [] ch = "1" -> 1 [] ch = "2" -> 2 [] ch = "3" -> 3
      [] ch = "4" -> 4 [] ch = "5" -> 5 [] ch = "6" -> 6 [] ch = "7" -> 7
      [] ch = "8" -> 8 [] ch = "9" -> 9

RECURSIVE ParseDecimal(_)
\* the number a string of decimal digits denotes
ParseDecimal(s) ==
    IF Len(s) = 0 THEN 0
    ELSE 10 * ParseDecimal(SubSeq(s, 1, Len(s) - 1))
            + DigitValue(SubSeq(s, Len(s), Len(s)))

\* the conventional currency and the BIN table of a country
ConventionalCurrency(c) ==
    CASE c = "Brazil" -> "BRL" [] c = "Mexico" -> "MXN" [] c = "Colombia" -> "COP"

BinTable(c) ==
    CASE c = "Brazil" -> {"411111", "510510", "376411"}
      [] c = "Mexico" -> {"424242", "551234", "371449"}
      [] c = "Colombia" -> {"431940", "520082", "378282"}

\* the transaction at 0-based position i has the country of i mod 3, that
\* country's currency, one of its BINs and the id txn_ followed by i + 1
TestDataShape(txns) ==
    /\ \A k \in 1..Len(txns) :
          LET t == txns[k]
              i == k - 1
          IN  /\ t.country = (CASE i % 3 = 0 -> "Brazil" [] i % 3 = 1 -> "Mexico"
                                [] i % 3 = 2 -> "Colombia")
              /\ t.currency = ConventionalCurrency(t.country)
              /\ t.card_bin \in BinTable(t.country)
              /\ SubSeq(t.id, 1, 4) = "txn_"
              /\ ParseDecimal(SubSeq(t.id, 5, Len(t.id))) = i + 1
    /\ \A k, l \in 1..Len(txns) : k # l => txns[k].id # txns[l].id

\* C24: generate_test_data(N) returns exactly N transactions, the one at
\* 0-based position i with the country Brazil, Mexico, Colombia for
\* i mod 3 = 0, 1, 2, the matching currency, a BIN of that country's table and
\* the id txn_ followed by i + 1, so that the ids are unique;
\* get_test_dataset() returns 210 transactions, exactly 70 of each country.
C24_TestDataShape ==
    /\ Returned("generate_test_data") =>
          /\ Len(transactions) = count
          /\ TestDataShape(transactions)
    /\ Returned("get_test_dataset") =>
          /\ Len(transactions) = 210
          /\ TestDataShape(transactions)
          /\ \A c \in Countries :
                Cardinality({k \in 1..Len(transactions) :
                                transactions[k].country = c}) = 70

\* get_test_dataset has returned: the last transaction is txn_0210, of
\* Colombia
C24_Witness ==
    /\ Returned("get_test_dataset")
    /\ transactions[210].id = "txn_0210"
    /\ transactions[210].country = "Colombia"
    /\ transactions[1].country = "Brazil"

\* a request /authorize checks and finds in order: the fields of its body
ChecksPass(req) ==
    /\ req.method = "POST"
    /\ req.body # InvalidBody
    /\ req.body.amount > 0
    /\ req.body.currency \in {"BRL", "MXN", "COP"}
    /\ req.body.country \in {"Brazil", "Mexico", "Colombia"}
    /\ req.body.card_bin # ""
    /\ req.body.card_last4 # ""
    /\ req.body.customer_id # ""

\* the handler has called route
Routed == op = "authorize" /\ result # NoResult

\* C22: /authorize and /report answer 405 to every request that is no POST,
\* before the body is read; /authorize answers 400 without calling route when
\* the body fails to parse or a field fails validation (amount <= 0,
\* unsupported currency or country, empty card_bin, card_last4 or
\* customer_id); route is called only after all checks passed.
C22_RejectionPrecedesRouting ==
    /\ op \in {"authorize", "report"} /\ http_request.method # "POST" =>
          /\ pc \in {"method_guard", "done"}
          /\ pc = "done" => http_response.status = 405
          /\ result = NoResult /\ report = NoReport
    /\ op = "authorize" /\ http_request.method = "POST" /\ ~ChecksPass(http_request) =>
          /\ pc \in {"method_guard", "parse_body", "validate", "done"}
          /\ pc = "done" => http_response.status = 400
          /\ result = NoResult
    /\ op = "authorize" /\ (pc = "route_call" \/ result # NoResult) =>
          ChecksPass(http_request)

\* a POST whose customer_id alone is empty has been answered 400, no route
\* call made
C22_Witness ==
    /\ Returned("authorize")
    /\ http_request.method = "POST"
    /\ http_request.body # InvalidBody
    /\ http_request.body.amount > 0
    /\ http_request.body.currency = "BRL"
    /\ http_request.body.country = "Brazil"
    /\ http_request.body.card_bin # ""
    /\ http_request.body.card_last4 # ""
    /\ http_request.body.customer_id = ""
    /\ http_response.status = 400
    /\ result = NoResult

\* C21: every Transaction the /authorize handler passes to route has the
\* conventional pair (BRL with Brazil, MXN with Mexico, COP with Colombia); a
\* request with another combination is answered 400 and never routed.
C21_PairingEnforced ==
    /\ op = "authorize" /\ pc = "route_call" =>
          <<transaction.currency, transaction.country>>
              \in {<<"BRL", "Brazil">>, <<"MXN", "Mexico">>, <<"COP", "Colombia">>}
    /\ Returned("authorize") /\ ChecksPass(http_request)
          /\ <<http_request.body.currency, http_request.body.country>>
                \notin {<<"BRL", "Brazil">>, <<"MXN", "Mexico">>, <<"COP", "Colombia">>} =>
          http_response.status = 400 /\ result = NoResult

====
